---- MODULE Spec2Model ----
(***************************************************************************)
(* Model of cmd/image-builder-maintenance/db.go: the retention cleanup    *)
(* DBCleanup runs against a database holding the tables "composes" and    *)
(* "clones".  One action per statement of DBCleanup; every database call  *)
(* may fail (the \E over fail / outcome).  Time is counted in months, the *)
(* only unit DBCleanup's AddDate call uses.                               *)
(***************************************************************************)
EXTENDS Integers, Sequences, FiniteSets, TLC

\* ---------------------------------------------------------------- bounds
MaxComposes == 2        \* job ids 1..MaxComposes
MaxClones   == 2        \* clone ids 1..MaxClones
StartNow    == 2        \* the clock when DBCleanup is called
MaxTicks    == 1        \* how far the clock may advance during the run
MaxMonths   == 1        \* ClonesRetentionMonths is drawn from 0..MaxMonths
MaxCalls    == 12       \* cap on the recorded call history (a run issues at most 10 calls)

VARIABLES
    composes,               \* table composes: set of [job_id, created_at]
    clones,                 \* table clones: set of [id, compose_id]
    composes0, clones0,     \* the tables as they were when DBCleanup was called
    dryRun,                 \* parameter of DBCleanup
    ClonesRetentionMonths,  \* parameter of DBCleanup
    now,                    \* the wall clock (time.Now())
    pc,                     \* position in DBCleanup
    connOpen,               \* db.Conn is an established, not yet closed connection
    emailRetentionDate,     \* <<>> until line 165 ran, then <<cutoff>>
    rows, rowsClones,       \* locals of DBCleanup
    err,                    \* local err of DBCleanup
    ret,                    \* the value DBCleanup returned (NoErr until it returns)
    calls,                  \* history of the calls DBCleanup made, in order
    log,                    \* records handed to logrus, in order
    lastStats,              \* <<>>, or <<what the latest LogVacuumStats call did>>
    prev                    \* <<>>, or <<the previous invocation of DBCleanup>>

vars == <<composes, clones, composes0, clones0, dryRun, ClonesRetentionMonths, now, pc,
          connOpen, emailRetentionDate, rows, rowsClones, err, ret, calls, log,
          lastStats, prev>>

NoErr == "nil"

ComposeIds == 1..MaxComposes
CloneIds   == 1..MaxClones
\* created_at of the rows: the month before DBCleanup is called, or that month
Times      == (StartNow - 1)..StartNow

\* The rows pg_stat_user_tables returns: one per user table.
StatTables == <<"clones", "composes">>

\* ------------------------------------------------------------ SQL statements
\* SELECT job_id FROM composes WHERE created_at < $1
SubqueryExpiredJobIds(cs, t) == {c.job_id : c \in {x \in cs : x.created_at < t}}

\* Variant: the statement matches the clone's own id against the subquery.
SqlDeleteClones_WrongColumn(cl, cs, t) == {c \in cl : c.id \in SubqueryExpiredJobIds(cs, t)}

\* DELETE FROM clones WHERE compose_id in (subquery): the rows it deletes
SqlDeleteClones(cl, cs, t) == {c \in cl : c.compose_id \in SubqueryExpiredJobIds(cs, t)}

\* Variant: the comparison includes the cutoff itself.
SqlDeleteComposes_Inclusive(cs, t) == {c \in cs : c.created_at <= t}

\* DELETE FROM composes WHERE created_at < $1: the rows it deletes
SqlDeleteComposes(cs, t) == {c \in cs : c.created_at < t}

\* SELECT COUNT(*) FROM clones WHERE compose_id in (subquery)
SqlExpiredClonesCount(cl, cs, t) ==
    Cardinality({c \in cl : c.compose_id \in SubqueryExpiredJobIds(cs, t)})

\* Variant: the count includes the composes created at the cutoff.
SqlExpiredComposesCount_Inclusive(cs, t) == Cardinality({c \in cs : c.created_at <= t})

\* SELECT COUNT(*) FROM composes WHERE created_at < $1
SqlExpiredComposesCount(cs, t) == Cardinality({c \in cs : c.created_at < t})

\* ------------------------------------------------------ maintenanceDB methods
\* Each returns what the method returns plus the table it leaves behind.  A
\* failed statement changes nothing (one statement is atomic) and pgx hands
\* back the zero CommandTag, whose RowsAffected() is 0.
DeleteClones(cl, cs, t, fail) ==
    IF fail
    THEN [clones |-> cl, rows |-> 0, err |-> "Error deleting clones"]
    ELSE [clones |-> cl \ SqlDeleteClones(cl, cs, t),
          rows   |-> Cardinality(SqlDeleteClones(cl, cs, t)),
          err    |-> NoErr]

DeleteComposes(cs, t, fail) ==
    IF fail
    THEN [composes |-> cs, rows |-> 0, err |-> "Error deleting composes"]
    ELSE [composes |-> cs \ SqlDeleteComposes(cs, t),
          rows     |-> Cardinality(SqlDeleteComposes(cs, t)),
          err      |-> NoErr]

ExpiredClonesCount(cl, cs, t, fail) ==
    IF fail THEN [count |-> 0, err |-> "count clones failed"]
            ELSE [count |-> SqlExpiredClonesCount(cl, cs, t), err |-> NoErr]

ExpiredComposesCount(cs, t, fail) ==
    IF fail THEN [count |-> 0, err |-> "count composes failed"]
            ELSE [count |-> SqlExpiredComposesCount(cs, t), err |-> NoErr]

VacuumAnalyze(fail) == IF fail THEN "Error running VACUUM ANALYZE" ELSE NoErr

\* d.Conn.Close(): the connection is closed afterwards whatever Close returns.
Close(open) == FALSE

\* The ways one LogVacuumStats call can go: the query fails; Scan fails on row
\* "at"; rows.Next() ends after "at" rows with rows.Err() set; all rows read.
StatOutcomes ==
    {[kind |-> "queryErr", at |-> 0], [kind |-> "ok", at |-> Len(StatTables)]}
    \cup [kind : {"scanErr"}, at : 1..Len(StatTables)]
    \cup [kind : {"iterErr"}, at : 0..(Len(StatTables) - 1)]

StatRecord(name) ==
    [level |-> "info", msg |-> "Vacuum and analyze stats for table", args |-> <<name>>]

\* The rows LogVacuumStats logs: those before the one that failed.
StatLogged(o) ==
    LET n == CASE o.kind = "queryErr" -> 0
               [] o.kind = "scanErr"  -> o.at - 1
               [] o.kind = "iterErr"  -> o.at
               [] OTHER               -> Len(StatTables)
    IN  [i \in 1..n |-> StatRecord(StatTables[i])]

\* Variant: rows.Close() is called at the normal end only, not deferred.
CursorAtReturn_NoDefer(o) ==
    IF o.kind = "queryErr" THEN "none" ELSE IF o.kind = "ok" THEN "closed" ELSE "open"

\* line 110: defer rows.Close(); after a failed query there is no cursor.
CursorAtReturn(o) == IF o.kind = "queryErr" THEN "none" ELSE "closed"

LogVacuumStats(o) ==
    [outcome |-> o,
     logged  |-> StatLogged(o),
     cursor  |-> CursorAtReturn(o),
     deleted |-> 0,
     err     |-> CASE o.kind = "queryErr" -> "Error querying vacuum stats"
                   [] o.kind = "scanErr"  -> "scan error"
                   [] o.kind = "iterErr"  -> "rows error"
                   [] OTHER               -> NoErr]

\* time.Time.AddDate(0, months, 0)
AddDate(t, months) == t + months

\* What a format verb of logrus.Errorf (fmt.Sprintf) prints for a value: %v
\* prints any value; %d prints an integer and, for anything else, the bad-verb
\* marker "%!d(...)" in place of a number.
Render(verb, a) ==
    IF a.type = "int64" THEN [kind |-> "number", int |-> a.int, text |-> ""]
    ELSE IF verb = "%d" THEN [kind |-> "badverb", int |-> 0, text |-> a.text]
    ELSE [kind |-> "text", int |-> 0, text |-> a.text]

\* The verbs of "Error deleting clones: %v, %d rows affected" (and of the
\* composes message): the error comes first, the row count second.
DeleteErrorVerbs == <<"%v", "%d">>

\* What the message shows in its error place and in its "rows affected" place:
\* the arguments are taken in the order they are passed.
ShownError(rec) == Render(DeleteErrorVerbs[1], rec.args[1])

ShownRows(rec) == Render(DeleteErrorVerbs[2], rec.args[2])

\* ------------------------------------------------------ DBCleanup control flow
Call(op, arg, e, n) == [op |-> op, arg |-> arg, err |-> e, rows |-> n]

LogRec(level, msg, args) == [level |-> level, msg |-> msg, args |-> args]

\* The Go values handed to a format verb.
IntArg(n) == [type |-> "int64", int |-> n, text |-> ""]

ErrArg(e) == [type |-> "error", int |-> 0, text |-> e]

\* Variant: the error of newDB is not checked.
AfterNewDB_IgnoresError(e) == "statsBefore"

\* Variant: the statistics before the run are left out.
AfterNewDB_SkipsStats(e) == IF e # NoErr THEN "aborted" ELSE "cutoff"

\* line 153: if err != nil { return err }
AfterNewDB(e) == IF e # NoErr THEN "aborted" ELSE "statsBefore"

\* Variant: a failing statistics report ends the run.
AfterStatsBefore_Aborts(e) == IF e # NoErr THEN "aborted" ELSE "cutoff"

\* lines 158-160: the error is logged, nothing else
AfterStatsBefore(e) == "cutoff"

\* Variant: a failing count query ends the run.
AfterClonesCount_Aborts(e) == IF e # NoErr THEN "aborted" ELSE "expiredComposesCount"

\* lines 170-172: the error is logged, nothing else
AfterClonesCount(e) == "expiredComposesCount"

\* Variant: the dry-run branch is missing.
LoopTop_IgnoresDryRun(dry) == "deleteClones"

\* lines 167-168: for { if dryRun { ... } ... }
LoopTop(dry) == IF dry THEN "expiredClonesCount" ELSE "deleteClones"

\* Variant: the error of DeleteClones is not checked.
AfterDeleteClones_IgnoresError(e) == "deleteComposes"

\* lines 183-186
AfterDeleteClones(e) == IF e # NoErr THEN "aborted" ELSE "deleteComposes"

\* Variant: the error of DeleteComposes is not checked.
AfterDeleteComposes_IgnoresError(e) == "vacuumAnalyze"

\* lines 189-192
AfterDeleteComposes(e) == IF e # NoErr THEN "aborted" ELSE "vacuumAnalyze"

\* Variant: the exit test is inverted.
ExitLoop_Inverted(n) == n # 0

\* Variant: the exit test can never succeed.
ExitLoop_Never(n) == n < 0

\* lines 200-202: if rows == 0 { break }
ExitLoop(n) == n = 0

\* Variant: the cutoff is computed inside the loop.
Continue_RecomputesCutoff(dry) == "cutoff"

\* line 205: the closing brace of the for loop jumps back to line 167
Continue(dry) == LoopTop(dry)

\* Variant: the error of VacuumAnalyze is not checked.
AfterVacuumAnalyze_IgnoresError(e, n, dry) ==
    IF ExitLoop(n) THEN "statsAfter" ELSE Continue(dry)

\* lines 195-205
AfterVacuumAnalyze(e, n, dry) ==
    IF e # NoErr THEN "aborted"
    ELSE IF ExitLoop(n) THEN "statsAfter" ELSE Continue(dry)

\* Variant: the error of the last LogVacuumStats is returned.
FinalResult_ReturnsStatsErr(e) == e

\* line 212: return nil
FinalResult(e) == NoErr

Running == pc \notin {"done", "aborted"} /\ Len(calls) < MaxCalls

\* ------------------------------------------------------------------- Init
\* job_id and id are keys, and the code only ever tests them for equality, so
\* the datasets are taken up to renaming of the keys: the job ids in use are
\* 1..n in the order of created_at, the clone ids 1..m in the order of compose_id.
ComposeTables ==
    {cs \in SUBSET [job_id : ComposeIds, created_at : Times] :
        /\ {c.job_id : c \in cs} = 1..Cardinality(cs)
        /\ \A a, b \in cs : a.job_id < b.job_id => a.created_at <= b.created_at}

CloneTables(cs) ==
    {cl \in SUBSET [id : CloneIds, compose_id : {c.job_id : c \in cs}] :
        /\ {k.id : k \in cl} = 1..Cardinality(cl)
        /\ \A a, b \in cl : a.id < b.id => a.compose_id <= b.compose_id}

Init ==
    /\ composes0 \in ComposeTables
    /\ clones0 \in CloneTables(composes0)
    /\ composes = composes0
    /\ clones = clones0
    /\ dryRun \in BOOLEAN
    /\ ClonesRetentionMonths \in 0..MaxMonths
    /\ now = StartNow
    /\ pc = "newDB"
    /\ connOpen = FALSE
    /\ emailRetentionDate = <<>>
    /\ rows = 0
    /\ rowsClones = 0
    /\ err = NoErr
    /\ ret = NoErr
    /\ calls = <<>>
    /\ log = <<>>
    /\ lastStats = <<>>
    /\ prev = <<>>

\* ---------------------------------------------------------------- actions
\* lines 152-155: db, err := newDB(dbURL)
NewDB ==
    /\ pc = "newDB" /\ Running
    /\ \E fail \in BOOLEAN :
          LET e == IF fail THEN "connect failed" ELSE NoErr IN
          /\ err' = e
          /\ connOpen' = ~fail
          /\ calls' = Append(calls, Call("newDB", <<>>, e, 0))
          /\ pc' = AfterNewDB(e)
          /\ ret' = IF AfterNewDB(e) = "aborted" THEN e ELSE ret
    /\ UNCHANGED <<prev, lastStats, composes, clones, composes0, clones0, dryRun, ClonesRetentionMonths,
                   now, emailRetentionDate, rows, rowsClones, log>>

\* lines 157-160: the statistics before the run
StatsBefore ==
    /\ pc = "statsBefore" /\ Running
    /\ \E o \in StatOutcomes :
          LET r == LogVacuumStats(o) IN
          /\ err' = r.err
          /\ lastStats' = <<r>>
          /\ calls' = Append(calls, Call("LogVacuumStats", <<>>, r.err, r.deleted))
          /\ log' = log \o r.logged \o
                    (IF r.err # NoErr
                     THEN <<LogRec("error", "Error running vacuum stats", <<r.err>>)>>
                     ELSE <<>>)
          /\ pc' = AfterStatsBefore(r.err)
    /\ UNCHANGED <<prev, composes, clones, composes0, clones0, dryRun, ClonesRetentionMonths,
                   now, connOpen, emailRetentionDate, rows, rowsClones, ret>>

\* line 165: emailRetentionDate := time.Now().AddDate(0, ClonesRetentionMonths*-1, 0)
ComputeCutoff ==
    /\ pc = "cutoff" /\ Running
    /\ emailRetentionDate' = <<AddDate(now, ClonesRetentionMonths * (-1))>>
    /\ calls' = Append(calls, Call("Now", <<>>, NoErr, 0))
    /\ pc' = LoopTop(dryRun)
    /\ UNCHANGED <<prev, lastStats, composes, clones, composes0, clones0, dryRun, ClonesRetentionMonths,
                   now, connOpen, rows, rowsClones, err, ret, log>>

\* lines 169-172
DryRunClonesCount ==
    /\ pc = "expiredClonesCount" /\ Running
    /\ \E fail \in BOOLEAN :
          LET r == ExpiredClonesCount(clones, composes, emailRetentionDate[1], fail) IN
          /\ rowsClones' = r.count
          /\ err' = r.err
          /\ calls' = Append(calls, Call("ExpiredClonesCount", emailRetentionDate, r.err, r.count))
          /\ log' = IF r.err # NoErr
                    THEN Append(log, LogRec("warning", "Error querying expired clones", <<r.err>>))
                    ELSE log
          /\ pc' = AfterClonesCount(r.err)
    /\ UNCHANGED <<prev, lastStats, composes, clones, composes0, clones0, dryRun, ClonesRetentionMonths,
                   now, connOpen, emailRetentionDate, rows, ret>>

\* lines 174-179
DryRunComposesCount ==
    /\ pc = "expiredComposesCount" /\ Running
    /\ \E fail \in BOOLEAN :
          LET r == ExpiredComposesCount(composes, emailRetentionDate[1], fail) IN
          /\ rows' = r.count
          /\ err' = r.err
          /\ calls' = Append(calls, Call("ExpiredComposesCount", emailRetentionDate, r.err, r.count))
          /\ log' = (IF r.err # NoErr
                     THEN Append(log, LogRec("warning", "Error querying expired composes", <<r.err>>))
                     ELSE log)
                    \o <<LogRec("info", "Dryrun, expired composes count", <<r.count, rowsClones>>)>>
    /\ pc' = "statsAfter"
    /\ UNCHANGED <<prev, lastStats, composes, clones, composes0, clones0, dryRun, ClonesRetentionMonths,
                   now, connOpen, emailRetentionDate, rowsClones, ret>>

\* lines 182-186
StepDeleteClones ==
    /\ pc = "deleteClones" /\ Running
    /\ \E fail \in BOOLEAN :
          LET r == DeleteClones(clones, composes, emailRetentionDate[1], fail) IN
          /\ clones' = r.clones
          /\ rows' = r.rows
          /\ err' = r.err
          /\ calls' = Append(calls, Call("DeleteClones", emailRetentionDate, r.err, r.rows))
          /\ log' = IF r.err # NoErr
                    THEN Append(log, LogRec("error", "Error deleting clones: %v, %d rows affected",
                                            <<IntArg(r.rows), ErrArg(r.err)>>))
                    ELSE log
          /\ pc' = AfterDeleteClones(r.err)
          /\ ret' = IF AfterDeleteClones(r.err) = "aborted" THEN r.err ELSE ret
    /\ UNCHANGED <<prev, lastStats, composes, composes0, clones0, dryRun, ClonesRetentionMonths,
                   now, connOpen, emailRetentionDate, rowsClones>>

\* lines 188-192
StepDeleteComposes ==
    /\ pc = "deleteComposes" /\ Running
    /\ \E fail \in BOOLEAN :
          LET r == DeleteComposes(composes, emailRetentionDate[1], fail) IN
          /\ composes' = r.composes
          /\ rows' = r.rows
          /\ err' = r.err
          /\ calls' = Append(calls, Call("DeleteComposes", emailRetentionDate, r.err, r.rows))
          /\ log' = IF r.err # NoErr
                    THEN Append(log, LogRec("error", "Error deleting composes: %v, %d rows affected",
                                            <<IntArg(r.rows), ErrArg(r.err)>>))
                    ELSE log
          /\ pc' = AfterDeleteComposes(r.err)
          /\ ret' = IF AfterDeleteComposes(r.err) = "aborted" THEN r.err ELSE ret
    /\ UNCHANGED <<prev, lastStats, clones, composes0, clones0, dryRun, ClonesRetentionMonths,
                   now, connOpen, emailRetentionDate, rowsClones>>

\* lines 194-205: reclaim, then the loop's exit test
StepVacuumAnalyze ==
    /\ pc = "vacuumAnalyze" /\ Running
    /\ \E fail \in BOOLEAN :
          LET e    == VacuumAnalyze(fail)
              next == AfterVacuumAnalyze(e, rows, dryRun) IN
          /\ err' = e
          /\ calls' = Append(calls, Call("VacuumAnalyze", <<>>, e, 0))
          /\ log' = IF e # NoErr
                    THEN Append(log, LogRec("error", "Error running vacuum analyze", <<e>>))
                    ELSE IF ~ExitLoop(rows)
                    THEN Append(log, LogRec("info", "Deleted results for", <<rows>>))
                    ELSE log
          /\ pc' = next
          /\ ret' = IF next = "aborted" THEN e ELSE ret
    /\ UNCHANGED <<prev, lastStats, composes, clones, composes0, clones0, dryRun, ClonesRetentionMonths,
                   now, connOpen, emailRetentionDate, rows, rowsClones>>

\* lines 207-212: the statistics after the run, then return nil
StatsAfter ==
    /\ pc = "statsAfter" /\ Running
    /\ \E o \in StatOutcomes :
          LET r == LogVacuumStats(o) IN
          /\ err' = r.err
          /\ lastStats' = <<r>>
          /\ calls' = Append(calls, Call("LogVacuumStats", <<>>, r.err, r.deleted))
          /\ log' = log \o r.logged \o
                    (IF r.err # NoErr
                     THEN <<LogRec("error", "Error running vacuum stats", <<r.err>>)>>
                     ELSE <<>>)
          /\ ret' = FinalResult(r.err)
          /\ pc' = IF FinalResult(r.err) = NoErr THEN "done" ELSE "aborted"
    /\ UNCHANGED <<prev, composes, clones, composes0, clones0, dryRun, ClonesRetentionMonths,
                   now, connOpen, emailRetentionDate, rows, rowsClones>>

\* The wall clock advances while DBCleanup runs.
Tick ==
    /\ pc \notin {"done", "aborted"}
    /\ now < StartNow + MaxTicks
    /\ now' = now + 1
    /\ UNCHANGED <<prev, lastStats, composes, clones, composes0, clones0, dryRun, ClonesRetentionMonths, pc,
                   connOpen, emailRetentionDate, rows, rowsClones, err, ret, calls, log>>

Step ==
    \/ NewDB
    \/ StatsBefore
    \/ ComputeCutoff
    \/ DryRunClonesCount
    \/ DryRunComposesCount
    \/ StepDeleteClones
    \/ StepDeleteComposes
    \/ StepVacuumAnalyze
    \/ StatsAfter

Next == Step \/ Tick

Spec == Init /\ [][Next]_vars

\* DBCleanup is one sequential function: whenever it has a next statement, it runs it.
FairSpec == Spec /\ WF_vars(Step)

\* DBCleanup is called a second time, live and with the same parameters, on the
\* tables a successful live run left behind.
Rerun ==
    /\ pc = "done" /\ ret = NoErr /\ ~dryRun
    /\ prev = <<>>
    /\ prev' = <<[cutoff |-> emailRetentionDate[1], composes0 |-> composes0,
                  clones0 |-> clones0]>>
    /\ composes0' = composes
    /\ clones0' = clones
    /\ pc' = "newDB"
    /\ connOpen' = FALSE
    /\ emailRetentionDate' = <<>>
    /\ rows' = 0
    /\ rowsClones' = 0
    /\ err' = NoErr
    /\ ret' = NoErr
    /\ calls' = <<>>
    /\ log' = <<>>
    /\ lastStats' = <<>>
    /\ UNCHANGED <<composes, clones, dryRun, ClonesRetentionMonths, now>>

NextRerun == Next \/ Rerun

RerunSpec == Init /\ [][NextRerun]_vars

\* ------------------------------------------------------- vocabulary of the claims
Returned == pc \in {"done", "aborted"}

CutoffSet == emailRetentionDate # <<>>

Cutoff == emailRetentionDate[1]

MutatingOps == {"DeleteClones", "DeleteComposes", "VacuumAnalyze"}

CountOps == {"ExpiredClonesCount", "ExpiredComposesCount"}

CallIdx(ops) == {i \in 1..Len(calls) : calls[i].op \in ops}

FailedIdx(ops) == {i \in CallIdx(ops) : calls[i].err # NoErr}

\* The composes of the initial dataset created strictly before t.
Expired0(t) == {c \in composes0 : c.created_at < t}

\* The clones of the initial dataset whose parent compose was created before t.
ExpiredClones0(t) == {k \in clones0 : \E c \in Expired0(t) : c.job_id = k.compose_id}

\* C1: when a live run returns without error, no compose created strictly
\* before the cutoff remains, and no clone remains that references a compose
\* (of the initial dataset) created strictly before the cutoff.
C1_NoExpiredAfterLiveRun ==
    (pc = "done" /\ ret = NoErr /\ ~dryRun) =>
        /\ \A c \in composes : ~(c.created_at < Cutoff)
        /\ \A k \in clones : \A c \in composes0 \cup composes :
               c.created_at < Cutoff => k.compose_id # c.job_id

\* A successful live run that had an expired compose with a clone to delete,
\* and an unexpired compose with a clone to keep.
C1_Witness ==
    /\ pc = "done" /\ ret = NoErr /\ ~dryRun
    /\ ExpiredClones0(Cutoff) # {}
    /\ clones # {} /\ composes # {}

\* C2: a dry run never mutates data: on every path it issues no DeleteClones,
\* no DeleteComposes and no VacuumAnalyze, and both tables stay as they were.
C2_DryRunMutatesNothing ==
    dryRun => /\ composes = composes0
              /\ clones = clones0
              /\ CallIdx(MutatingOps) = {}

\* A finished dry run over expired rows in which both count queries and both
\* statistics reports failed.
C2_Witness ==
    /\ dryRun /\ pc = "done"
    /\ ExpiredClones0(Cutoff) # {}
    /\ Cardinality(FailedIdx(CountOps)) = 2
    /\ Cardinality(FailedIdx({"LogVacuumStats"})) = 2

\* C3: in a live run every iteration issues DeleteClones, then DeleteComposes,
\* then VacuumAnalyze, all with the same cutoff; DeleteComposes is issued only
\* right after the DeleteClones of its iteration returned without error, and
\* VacuumAnalyze only right after DeleteComposes returned without error.
C3_IterationOrder ==
    \A i \in 1..Len(calls) :
        /\ calls[i].op = "DeleteClones" =>
               /\ i > 1
               /\ \/ calls[i-1].op = "Now"
                  \/ calls[i-1].op = "VacuumAnalyze" /\ calls[i-1].err = NoErr
               /\ calls[i].arg = emailRetentionDate
               /\ (i < Len(calls) => calls[i+1].op = "DeleteComposes")
        /\ calls[i].op = "DeleteComposes" =>
               /\ i > 1
               /\ calls[i-1].op = "DeleteClones"
               /\ calls[i-1].err = NoErr
               /\ calls[i].arg = calls[i-1].arg
               /\ (i < Len(calls) => calls[i+1].op = "VacuumAnalyze")
        /\ calls[i].op = "VacuumAnalyze" =>
               /\ i > 1
               /\ calls[i-1].op = "DeleteComposes"
               /\ calls[i-1].err = NoErr

\* A live run that completed two iterations.
C3_Witness ==
    /\ pc = "done" /\ ~dryRun
    /\ Cardinality(CallIdx({"VacuumAnalyze"})) = 2
    /\ Cardinality(CallIdx({"DeleteClones"})) = 2

\* C4: no clone is ever orphaned: in every state of a run, the end states
\* included, every remaining clone references an existing compose.
C4_NoOrphanedClone ==
    \A k \in clones : \E c \in composes : c.job_id = k.compose_id

\* A run aborted in its second iteration, after composes with clones were
\* deleted, with a clone still in the table.
C4_Witness ==
    /\ pc = "aborted"
    /\ composes # composes0
    /\ clones # clones0
    /\ clones # {}

\* C5: the delete loop terminates: a live run in which no statement fails
\* reaches an iteration whose DeleteComposes affects zero rows, leaves the loop
\* and reaches Done.
C5_LoopTerminates ==
    <>(\/ dryRun
       \/ FailedIdx(MutatingOps \cup {"newDB"}) # {}
       \/ /\ pc = "done"
          /\ \E i \in CallIdx({"DeleteComposes"}) : calls[i].rows = 0)

\* A live run that deleted expired composes and reached Done.
C5_Witness ==
    /\ pc = "done" /\ ~dryRun
    /\ composes # composes0
    /\ FailedIdx(MutatingOps) = {}

\* C6: once the connection was established, it is released on every exit path
\* of DBCleanup (Done and Aborted alike).
C6_ConnectionReleased ==
    (Returned /\ calls[1].err = NoErr) => ~connOpen

\* C7: DBCleanup returns a non-nil error exactly when the connection attempt,
\* a DeleteClones, a DeleteComposes or a VacuumAnalyze call failed; failures of
\* LogVacuumStats and of the count queries never make the result an error.
C7_ErrorIffMutatingFailure ==
    /\ Returned => (ret # NoErr <=> FailedIdx(MutatingOps \cup {"newDB"}) # {})
    /\ Returned => (pc = "aborted" <=> ret # NoErr)
    /\ ~Returned => FailedIdx(MutatingOps \cup {"newDB"}) = {}

\* A live run that returned nil although both statistics reports failed.
C7_Witness ==
    /\ pc = "done" /\ ret = NoErr /\ ~dryRun
    /\ Cardinality(FailedIdx({"LogVacuumStats"})) = 2
    /\ composes # composes0

RECURSIVE SumRows(_, _)
\* The rows affected by the successful calls of op among the first n calls.
SumRows(op, n) ==
    IF n = 0 THEN 0
    ELSE SumRows(op, n - 1) +
         (IF calls[n].op = op /\ calls[n].err = NoErr THEN calls[n].rows ELSE 0)

\* C8: an error of DeleteClones, DeleteComposes or VacuumAnalyze aborts the run
\* at once: it is the last call made, it is the error returned, and the rows
\* deleted by the statements that completed before stay deleted.
C8_AbortOnLoopError ==
    /\ \A i \in FailedIdx(MutatingOps) :
          /\ i = Len(calls)
          /\ pc = "aborted"
          /\ ret = calls[i].err
    /\ composes \subseteq composes0
    /\ clones \subseteq clones0
    /\ Cardinality(composes0) - Cardinality(composes) = SumRows("DeleteComposes", Len(calls))
    /\ Cardinality(clones0) - Cardinality(clones) = SumRows("DeleteClones", Len(calls))

\* A run aborted by a failing statement of its second iteration, the first
\* iteration's deletions still in effect.
C8_Witness ==
    /\ pc = "aborted"
    /\ FailedIdx(MutatingOps) # {}
    /\ Cardinality(CallIdx({"DeleteClones"})) = 2
    /\ composes # composes0
    /\ clones # clones0

\* C9: a live run deletes expired rows only: every compose that is gone was
\* created strictly before the cutoff, and every clone that is gone had a parent
\* compose created strictly before the cutoff.
C9_OnlyExpiredDeleted ==
    /\ \A c \in composes0 \ composes : CutoffSet /\ c.created_at < Cutoff
    /\ \A k \in clones0 \ clones :
          CutoffSet /\ \E c \in composes0 : c.job_id = k.compose_id /\ c.created_at < Cutoff

\* A finished live run that deleted a compose and kept a compose created
\* exactly at the cutoff together with its clone.
C9_Witness ==
    /\ pc = "done" /\ ~dryRun
    /\ composes # composes0
    /\ \E c \in composes : /\ c.created_at = Cutoff
                           /\ \E k \in clones : k.compose_id = c.job_id

\* C10: the cutoff is computed exactly once per run, before the loop, and every
\* DeleteClones, DeleteComposes, ExpiredClonesCount and ExpiredComposesCount
\* call receives that value, however far the clock advances meanwhile.
C10_CutoffComputedOnce ==
    /\ Cardinality(CallIdx({"Now"})) = (IF CutoffSet THEN 1 ELSE 0)
    /\ \A i \in CallIdx({"DeleteClones", "DeleteComposes"} \cup CountOps) :
          /\ calls[i].arg = emailRetentionDate
          /\ \E j \in CallIdx({"Now"}) : j < i
          /\ \A j \in CallIdx({"DeleteClones", "DeleteComposes"} \cup CountOps) :
                calls[j].arg = calls[i].arg

\* A live run of two iterations during which the clock moved on after the
\* cutoff was computed.
C10_Witness ==
    /\ pc = "done" /\ ~dryRun
    /\ Cardinality(CallIdx({"DeleteComposes"})) = 2
    /\ AddDate(now, ClonesRetentionMonths * (-1)) # Cutoff

\* C11: idempotence of the live pass: in a second live run on the tables a
\* successful live run left behind, computing the same cutoff, every
\* DeleteClones and DeleteComposes call affects zero rows and the tables stay
\* as the second run found them.
C11_SecondRunDeletesNothing ==
    (prev # <<>> /\ CutoffSet /\ Cutoff = prev[1].cutoff) =>
        /\ \A i \in CallIdx({"DeleteClones", "DeleteComposes"}) : calls[i].rows = 0
        /\ composes = composes0
        /\ clones = clones0

\* A second run with the same cutoff has finished, after a first run that
\* deleted composes and clones and left a compose behind.
C11_Witness ==
    /\ prev # <<>> /\ pc = "done"
    /\ Cutoff = prev[1].cutoff
    /\ prev[1].composes0 # composes0
    /\ prev[1].clones0 # clones0
    /\ composes # {}
    /\ Cardinality(CallIdx({"DeleteComposes"})) = 1

\* Scenario A: a live run over one expired compose with one dependent clone
\* and one unexpired compose.
ScenarioA ==
    /\ ~dryRun /\ CutoffSet
    /\ Cardinality(composes0) = 2
    /\ Cardinality(Expired0(Cutoff)) = 1
    /\ Cardinality(clones0) = 1
    /\ ExpiredClones0(Cutoff) = clones0

\* The calls made from the n-th on, by name.
OpsFrom(n) == [i \in 1..(Len(calls) - n + 1) |-> calls[i + n - 1].op]

\* C12: in scenario A a live run removes the expired compose and its clone and
\* keeps the unexpired compose; exactly one full iteration (one DeleteClones,
\* one DeleteComposes, one VacuumAnalyze) runs before the iteration whose
\* DeleteComposes affects zero rows, which ends the loop.
C12_ScenarioA ==
    (ScenarioA /\ pc = "done") =>
        /\ composes = composes0 \ Expired0(Cutoff)
        /\ Cardinality(composes) = 1
        /\ clones = {}
        /\ OpsFrom(4) = <<"DeleteClones", "DeleteComposes", "VacuumAnalyze",
                          "DeleteClones", "DeleteComposes", "VacuumAnalyze",
                          "LogVacuumStats">>
        /\ calls[4].rows = 1 /\ calls[5].rows = 1
        /\ calls[7].rows = 0 /\ calls[8].rows = 0

\* Scenario A has run to Done.
C12_Witness ==
    /\ ScenarioA /\ pc = "done" /\ ret = NoErr
    /\ \E c \in composes : c.created_at >= Cutoff

\* C13: a failed DeleteClones or DeleteComposes returns its row count with the
\* error, the error is what DBCleanup returns, and the message logged for it
\* shows that error and that row count as its "rows affected".
C13_RowCountSurfaced ==
    \A i \in FailedIdx({"DeleteClones", "DeleteComposes"}) :
        /\ ret = calls[i].err
        /\ rows = calls[i].rows
        /\ log # <<>>
        /\ LET rec == log[Len(log)] IN
           /\ rec.level = "error"
           /\ ShownError(rec) = [kind |-> "text", int |-> 0, text |-> calls[i].err]
           /\ ShownRows(rec) = [kind |-> "number", int |-> calls[i].rows, text |-> ""]

\* C14: when the connection cannot be established, DBCleanup returns that
\* error and does nothing else: no statistics query, no count query, no delete
\* and no reclaim is issued, nothing is logged and the tables are untouched.
C14_ConnectFailureStopsRun ==
    (calls # <<>> /\ calls[1].err # NoErr) =>
        /\ calls[1].op = "newDB"
        /\ Len(calls) = 1
        /\ pc = "aborted"
        /\ ret = calls[1].err
        /\ log = <<>>
        /\ lastStats = <<>>
        /\ ~CutoffSet
        /\ ~connOpen
        /\ composes = composes0 /\ clones = clones0

\* The connection attempt failed on tables holding expired rows.
C14_Witness ==
    /\ pc = "aborted"
    /\ FailedIdx({"newDB"}) = {1}
    /\ clones # {}
    /\ \E c \in composes : c.created_at < now - ClonesRetentionMonths

StatsBeforeFailed ==
    Len(calls) >= 2 /\ calls[2].op = "LogVacuumStats" /\ calls[2].err # NoErr

\* The run went through all its states: the loop ran to its end (or the
\* dry-run report was made), StatsAfter was attempted last, the result is nil.
CompletedRun ==
    /\ pc = "done" /\ ret = NoErr
    /\ Cardinality(CallIdx({"LogVacuumStats"})) = 2
    /\ calls[Len(calls)].op = "LogVacuumStats"
    /\ dryRun => Cardinality(CallIdx(CountOps)) = 2
    /\ ~dryRun => /\ calls[Len(calls) - 1].op = "VacuumAnalyze"
                  /\ calls[Len(calls) - 2].op = "DeleteComposes"
                  /\ calls[Len(calls) - 2].rows = 0
                  /\ \A c \in composes : ~(c.created_at < Cutoff)

\* C15: a failed statistics report never changes the rest of the run: after a
\* failed StatsBefore the run still executes the complete delete loop (or the
\* dry-run report), still attempts StatsAfter and returns nil, unless a delete
\* or reclaim fails; and a failed StatsAfter still ends the run in Done with nil.
C15_StatsFailureHarmless ==
    /\ [](StatsBeforeFailed => <>(FailedIdx(MutatingOps) # {} \/ CompletedRun))
    /\ []((Returned /\ FailedIdx(MutatingOps \cup {"newDB"}) = {}
              /\ calls[Len(calls)].err # NoErr) => (pc = "done" /\ ret = NoErr))

\* A live run whose StatsBefore failed, which then deleted expired rows and
\* went on to a StatsAfter that succeeded.
C15_Witness ==
    /\ pc = "done" /\ ~dryRun
    /\ StatsBeforeFailed
    /\ calls[Len(calls)].err = NoErr
    /\ composes # composes0
    /\ clones # clones0

\* C16: the statistics bracket the mutation phase: in a run that connects,
\* LogVacuumStats is the first call after newDB, before any count, delete or
\* reclaim; a run that ends in Done calls it exactly once more, as its last
\* call; an aborted run does not call it again; it is never called between two
\* statements of the loop.
C16_StatsBracketMutations ==
    /\ (Len(calls) >= 2) => (calls[1].err = NoErr /\ calls[2].op = "LogVacuumStats")
    /\ \A i \in CallIdx(MutatingOps \cup CountOps \cup {"Now"}) : i > 2
    /\ \A i \in CallIdx({"LogVacuumStats"}) : i = 2 \/ (i = Len(calls) /\ pc = "done")
    /\ pc = "done" => /\ Cardinality(CallIdx({"LogVacuumStats"})) = 2
                      /\ calls[Len(calls)].op = "LogVacuumStats"
                      /\ Len(calls) > 2
    /\ pc = "aborted" => Cardinality(CallIdx({"LogVacuumStats"})) = Len(calls) - 1
                         \/ Cardinality(CallIdx({"LogVacuumStats"})) = 1

\* A live run of two iterations, both statistics reports succeeding.
C16_Witness ==
    /\ pc = "done" /\ ~dryRun
    /\ FailedIdx({"LogVacuumStats"}) = {}
    /\ Cardinality(CallIdx({"DeleteComposes"})) = 2
    /\ Len(calls) = 10

\* The dry-run report records of the log.
DryRunReports == {i \in 1..Len(log) : log[i].msg = "Dryrun, expired composes count"}

\* C17: in a dry run without query errors the reported composes count is the
\* number of composes created strictly before the cutoff and the reported
\* clones count the number of clones referencing such composes: the numbers of
\* rows the delete statements of a live run with that cutoff would delete from
\* the same tables.
C17_DryRunCounts ==
    (dryRun /\ pc \in {"statsAfter", "done"} /\ FailedIdx(CountOps) = {}) =>
        /\ rows = Cardinality(Expired0(Cutoff))
        /\ rowsClones = Cardinality(ExpiredClones0(Cutoff))
        /\ rows = Cardinality(SqlDeleteComposes(composes0, Cutoff))
        /\ rowsClones = Cardinality(SqlDeleteClones(clones0, composes0, Cutoff))
        /\ Cardinality(DryRunReports) = 1
        /\ \A i \in DryRunReports : log[i].args = <<rows, rowsClones>>

\* Scenario B: a finished dry run over one expired compose with one clone and
\* one compose created exactly at the cutoff, reporting 1 and 1.
C17_Witness ==
    /\ dryRun /\ pc = "done" /\ FailedIdx(CountOps) = {}
    /\ rows = 1 /\ rowsClones = 1
    /\ Cardinality(composes) = 2 /\ Cardinality(clones) = 1
    /\ \E c \in composes : c.created_at = Cutoff

\* What a count call leaves in its variable: 0 when it failed.
ReportedCount(i, n) == IF calls[i].err # NoErr THEN 0 ELSE n

\* C18: a count-query error in a dry run is not fatal: the failed count is
\* reported as zero, the other count query is still made, the report is still
\* logged, the run goes on to StatsAfter and returns nil, also when both fail.
C18_CountErrorNonFatal ==
    /\ (dryRun /\ pc = "aborted") => FailedIdx({"newDB"}) # {}
    /\ (dryRun /\ pc = "expiredComposesCount") => OpsFrom(4) = <<"ExpiredClonesCount">>
    /\ (dryRun /\ pc \in {"statsAfter", "done"}) =>
          /\ calls[4].op = "ExpiredClonesCount"
          /\ calls[5].op = "ExpiredComposesCount"
          /\ rowsClones = ReportedCount(4, Cardinality(ExpiredClones0(Cutoff)))
          /\ rows = ReportedCount(5, Cardinality(Expired0(Cutoff)))
          /\ Cardinality(DryRunReports) = 1
          /\ \A i \in DryRunReports : log[i].args = <<rows, rowsClones>>
          /\ Cardinality({i \in 1..Len(log) : log[i].level = "warning"})
                = Cardinality(FailedIdx(CountOps))
    /\ (dryRun /\ pc = "done") =>
          /\ ret = NoErr
          /\ OpsFrom(6) = <<"LogVacuumStats">>

\* A finished dry run over expired rows in which both count queries failed and
\* both statistics reports succeeded.
C18_Witness ==
    /\ dryRun /\ pc = "done"
    /\ Cardinality(FailedIdx(CountOps)) = 2
    /\ FailedIdx({"LogVacuumStats"}) = {}
    /\ ExpiredClones0(Cutoff) # {}
    /\ rows = 0 /\ rowsClones = 0

\* The number of rows a LogVacuumStats call must have logged when it went the
\* way o: all rows before the one whose Scan failed, the rows read before the
\* iteration failed, every row at a normal end, none when the query failed.
RowsBefore(o) ==
    CASE o.kind = "scanErr"  -> o.at - 1
      [] o.kind = "iterErr"  -> o.at
      [] o.kind = "queryErr" -> 0
      [] OTHER               -> Len(StatTables)

\* C19: LogVacuumStats emits one record per table row, in result order; a scan
\* error on row k ends the iteration and is returned, with the records of rows
\* 1..k-1 emitted and none for row k or later; the result cursor is released on
\* every return path taken after the query succeeded.
C19_StatsRowsAndCursor ==
    lastStats # <<>> =>
        LET r == lastStats[1] IN
        /\ Len(r.logged) = RowsBefore(r.outcome)
        /\ \A i \in 1..Len(r.logged) :
              /\ r.logged[i].level = "info"
              /\ r.logged[i].args = <<StatTables[i]>>
        /\ (r.err = NoErr) <=> (r.outcome.kind = "ok")
        /\ r.outcome.kind # "queryErr" => r.cursor = "closed"
        /\ r.outcome.kind = "queryErr" => r.cursor = "none"
        /\ pc = "cutoff" =>
              /\ calls[2].err = r.err
              /\ SubSeq(log, 1, Len(r.logged)) = r.logged
              /\ Len(log) = Len(r.logged) + (IF r.err # NoErr THEN 1 ELSE 0)

\* StatsBefore met a scan error on the second row: the first row is logged,
\* followed only by DBCleanup's own error record.
C19_Witness ==
    /\ pc = "cutoff"
    /\ lastStats # <<>>
    /\ lastStats[1].outcome = [kind |-> "scanErr", at |-> 2]
    /\ Len(log) = 2
    /\ log[1].args = <<"clones">>
    /\ log[2].level = "error"

\* The number of passes through the loop body a live run without errors makes.
ExpectedIterations == IF Expired0(Cutoff) # {} THEN 2 ELSE 1

\* C20: the exit test comes after VacuumAnalyze of the same iteration: reclaim
\* also runs in the iteration whose DeleteComposes affected zero rows.  A live
\* run without errors makes exactly 2 iterations when an expired compose exists
\* and exactly 1 when none does; a VacuumAnalyze error in the zero-row
\* iteration still aborts the run with that error.
C20_ReclaimBeforeExitTest ==
    /\ \A i \in CallIdx({"DeleteComposes"}) :
          (calls[i].err = NoErr /\ i < Len(calls)) => calls[i+1].op = "VacuumAnalyze"
    /\ \A i \in CallIdx({"DeleteComposes"}) :
          (calls[i].err = NoErr /\ i = Len(calls)) => pc = "vacuumAnalyze"
    /\ (~dryRun /\ pc \in {"statsAfter", "done"}) =>
          /\ Cardinality(CallIdx({"DeleteClones"})) = ExpectedIterations
          /\ Cardinality(CallIdx({"DeleteComposes"})) = ExpectedIterations
          /\ Cardinality(CallIdx({"VacuumAnalyze"})) = ExpectedIterations
    /\ \A i \in FailedIdx({"VacuumAnalyze"}) :
          /\ pc = "aborted"
          /\ ret = calls[i].err
          /\ i = Len(calls)

\* VacuumAnalyze failed in the zero-row iteration that followed a deleting one.
C20_Witness ==
    /\ pc = "aborted"
    /\ FailedIdx({"VacuumAnalyze"}) = {Len(calls)}
    /\ calls[Len(calls) - 1].rows = 0
    /\ Cardinality(CallIdx({"VacuumAnalyze"})) = 2
    /\ composes # composes0

====
